---- MODULE Spec2Model ----
(***************************************************************************)
(* Nine Men's Morris (src/ninemensmorris.py): the board, its mutators,     *)
(* mill detection, move generation, the pure successor transform result(), *)
(* the evaluator, and the game loop of two search agents.                  *)
(*                                                                         *)
(* A board object is a record; a method that mutates its receiver is an    *)
(* operator that returns the receiver as it is after the call.  A Python   *)
(* list is a sequence, a coordinate pair ('a', 1) is the tuple <<"a", 1>>, *)
(* and None is the empty tuple (both are false in a Python condition).     *)
(***************************************************************************)
EXTENDS Integers, Sequences, FiniteSets, TLC

\* b: the board of the game (the object the game loop holds);
\* ret: the last call made on it, op its name and value what it returned
VARIABLES b, ret

vars == <<b, ret>>

\* ------------------------------------------------------------------------
\* Bounds of the model
\* ------------------------------------------------------------------------

\* plies are explored while the turn counter is below this
MaxTurn == 14

\* number of pieces the harness of SpecMill puts on a board
MaxHarnessPieces == 3

\* the deepest search of an agent in the games of searching agents
MaxDepth == 2

\* the turn counter at which the games of searching agents are cut off
MaxSearchTurn == 12

\* the number of plies the history harness records
MaxHistoryPly == 17

\* ------------------------------------------------------------------------
\* Values
\* ------------------------------------------------------------------------

None == <<>>

Colors == {"W", "B"}

\* board.MAX_PREVIOUS_ACTIONS
MAX_PREVIOUS_ACTIONS == 16

\* the keys of board.spaces, in the dict's insertion order
SpaceKeys ==
    << <<"a", 1>>, <<"a", 4>>, <<"a", 7>>, <<"b", 2>>, <<"b", 4>>, <<"b", 6>>,
       <<"c", 3>>, <<"c", 4>>, <<"c", 5>>, <<"d", 1>>, <<"d", 2>>, <<"d", 3>>,
       <<"d", 5>>, <<"d", 6>>, <<"d", 7>>, <<"e", 3>>, <<"e", 4>>, <<"e", 5>>,
       <<"f", 2>>, <<"f", 4>>, <<"f", 6>>, <<"g", 1>>, <<"g", 4>>, <<"g", 7>> >>

Spaces == {SpaceKeys[i] : i \in 1..Len(SpaceKeys)}

\* space.__init__: the adjacents list built for each of the 24 spaces, in
\* append order
space_init ==
    [space \in Spaces |->
    CASE space = <<"a", 1>> -> << <<"a", 4>>, <<"d", 1>> >>
      [] space = <<"a", 4>> -> << <<"a", 7>>, <<"a", 1>>, <<"b", 4>> >>
      [] space = <<"a", 7>> -> << <<"a", 4>>, <<"d", 7>> >>
      [] space = <<"b", 2>> -> << <<"b", 4>>, <<"d", 2>> >>
      [] space = <<"b", 4>> -> << <<"b", 6>>, <<"c", 4>>, <<"b", 2>>, <<"a", 4>> >>
      [] space = <<"b", 6>> -> << <<"b", 4>>, <<"d", 6>> >>
      [] space = <<"c", 3>> -> << <<"d", 3>>, <<"c", 4>> >>
      [] space = <<"c", 4>> -> << <<"c", 5>>, <<"c", 3>>, <<"b", 4>> >>
      [] space = <<"c", 5>> -> << <<"c", 4>>, <<"d", 5>> >>
      [] space = <<"d", 1>> -> << <<"a", 1>>, <<"d", 2>>, <<"g", 1>> >>
      [] space = <<"d", 2>> -> << <<"d", 3>>, <<"f", 2>>, <<"b", 2>>, <<"d", 1>> >>
      [] space = <<"d", 3>> -> << <<"e", 3>>, <<"d", 2>>, <<"c", 3>> >>
      [] space = <<"d", 5>> -> << <<"d", 6>>, <<"e", 5>>, <<"c", 5>> >>
      [] space = <<"d", 6>> -> << <<"d", 7>>, <<"f", 6>>, <<"d", 5>>, <<"b", 6>> >>
      [] space = <<"d", 7>> -> << <<"a", 7>>, <<"g", 7>>, <<"d", 6>> >>
      [] space = <<"e", 3>> -> << <<"d", 3>>, <<"e", 4>> >>
      [] space = <<"e", 4>> -> << <<"e", 5>>, <<"f", 4>>, <<"e", 3>> >>
      [] space = <<"e", 5>> -> << <<"d", 5>>, <<"e", 4>> >>
      [] space = <<"f", 2>> -> << <<"d", 2>>, <<"f", 4>> >>
      [] space = <<"f", 4>> -> << <<"f", 6>>, <<"g", 4>>, <<"f", 2>>, <<"e", 4>> >>
      [] space = <<"f", 6>> -> << <<"d", 6>>, <<"f", 4>> >>
      [] space = <<"g", 1>> -> << <<"d", 1>>, <<"g", 4>> >>
      [] space = <<"g", 4>> -> << <<"g", 7>>, <<"g", 1>>, <<"f", 4>> >>
      [] space = <<"g", 7>> -> << <<"d", 7>>, <<"g", 4>> >>
      [] OTHER -> << >>]

\* space_init with one append left out: ('g', 4) built without ('g', 7)
adjacents_g4_short(space) ==
    IF space = <<"g", 4>> THEN << <<"g", 1>>, <<"f", 4>> >> ELSE space_init[space]

\* space.adjacents, as read through board.spaces[space].adjacents
adjacents(space) == space_init[space]

\* action.__init__ with four arguments.  id stands for the identity of the
\* Python object: the class defines no __eq__, so == on two actions is
\* identity.  Every action is built fresh at the ply it is generated for,
\* and id is that ply's turn number.
action(color, old_coord, new_coord, mill_removal_target, id) ==
    [color |-> color, old_coord |-> old_coord, new_coord |-> new_coord,
     mill_removal_target |-> mill_removal_target, id |-> id]

\* board.__init__
board ==
    [white_pieces |-> << >>,
     black_pieces |-> << >>,
     repetition_draw |-> FALSE,
     previous_actions |-> << >>,
     turn |-> 1,
     utility |-> 0,
     spaces |-> [s \in Spaces |-> "O"]]

\* ------------------------------------------------------------------------
\* Python lists
\* ------------------------------------------------------------------------

\* x in list
contains(list, x) == \E i \in 1..Len(list) : list[i] = x

\* list.remove(x) raises ValueError when x is not in the list
remove_raises(list, x) == ~contains(list, x)

\* list.remove(x): the list without the first occurrence of x
list_remove(list, x) ==
    IF contains(list, x)
    THEN LET i == CHOOSE k \in 1..Len(list) :
                      list[k] = x /\ \A j \in 1..(k - 1) : list[j] # x
         IN  SubSeq(list, 1, i - 1) \o SubSeq(list, i + 1, Len(list))
    ELSE list

\* ------------------------------------------------------------------------
\* board: mutators
\* ------------------------------------------------------------------------

\* board.place: the receiver after the call
place(self, color, space) ==
    [self EXCEPT !.spaces[space] = color,
                 !.white_pieces = IF color = "W" THEN Append(@, space) ELSE @,
                 !.black_pieces = IF color = "W" THEN @ ELSE Append(@, space),
                 !.turn = @ + 1]

\* board.move raises (list.remove) when space1 is not in the mover's list
move_raises(self, color, space1) ==
    IF color = "W" THEN remove_raises(self.white_pieces, space1)
                   ELSE remove_raises(self.black_pieces, space1)

\* board.move that leaves the content of space1 as it was
move_keeps_source(self, color, space1, space2) ==
    [self EXCEPT !.spaces[space2] = color,
                 !.white_pieces = IF color = "W"
                                  THEN Append(list_remove(@, space1), space2)
                                  ELSE @,
                 !.black_pieces = IF color = "W"
                                  THEN @
                                  ELSE Append(list_remove(@, space1), space2),
                 !.turn = @ + 1]

\* board.move: the receiver after the call
move(self, color, space1, space2) ==
    [self EXCEPT !.spaces = [[@ EXCEPT ![space2] = color] EXCEPT ![space1] = "O"],
                 !.white_pieces = IF color = "W"
                                  THEN Append(list_remove(@, space1), space2)
                                  ELSE @,
                 !.black_pieces = IF color = "W"
                                  THEN @
                                  ELSE Append(list_remove(@, space1), space2),
                 !.turn = @ + 1]

\* board.remove raises (list.remove) when the space is not in the list of
\* the colour its content selects
removal_raises(self, space) ==
    IF self.spaces[space] = "W" THEN remove_raises(self.white_pieces, space)
                                ELSE remove_raises(self.black_pieces, space)

\* board.remove that clears the space and leaves the piece lists alone
remove_space_only(self, space) ==
    [self EXCEPT !.spaces[space] = "O"]

\* a remove that counts as a ply of its own
remove_counts_ply(self, space) ==
    [self EXCEPT !.white_pieces = IF self.spaces[space] = "W"
                                  THEN list_remove(@, space) ELSE @,
                 !.black_pieces = IF self.spaces[space] = "W"
                                  THEN @ ELSE list_remove(@, space),
                 !.spaces[space] = "O",
                 !.turn = @ + 1]

\* board.remove: the receiver after the call
remove(self, space) ==
    [self EXCEPT !.white_pieces = IF self.spaces[space] = "W"
                                  THEN list_remove(@, space) ELSE @,
                 !.black_pieces = IF self.spaces[space] = "W"
                                  THEN @ ELSE list_remove(@, space),
                 !.spaces[space] = "O"]

\* an add_action that never drops an action
add_action_keeps_all(self, act) ==
    [self EXCEPT !.previous_actions = Append(@, act)]

\* board.add_action: the receiver after the call
add_action(self, act) ==
    IF Len(self.previous_actions) < MAX_PREVIOUS_ACTIONS
    THEN [self EXCEPT !.previous_actions = Append(@, act)]
    ELSE [self EXCEPT !.previous_actions = Tail(Append(@, act))]

\* ------------------------------------------------------------------------
\* board: mill detection
\* ------------------------------------------------------------------------

\* the collinearity test of is_mill: same column letter or same row number
same_line(x, y) == x[1] = y[1] \/ x[2] = y[2]

\* is_mill's first check, the middle mill: two friendly neighbours of the
\* space on one line (lines 339-347)
middle_mill(friendly_adj) ==
    /\ Len(friendly_adj) > 1
    /\ \E i, j \in 1..Len(friendly_adj) :
          /\ i # j
          /\ same_line(friendly_adj[i], friendly_adj[j])

\* extra_adj without "and x != space"
extra_adj_with_space(self, color, space, s) ==
    SelectSeq(adjacents(s), LAMBDA x : self.spaces[x] = color)

\* the members of extra_adj for the friendly neighbour s (lines 351-352)
extra_adj(self, color, space, s) ==
    SelectSeq(adjacents(s), LAMBDA x : self.spaces[x] = color /\ x # space)

\* whether some member of a list is on a line with the space (lines 353-355)
some_same_line(list, space) ==
    \E k \in 1..Len(list) : same_line(list[k], space)

\* is_mill's second check, the long mill: a friendly piece two spaces away
\* on the line (lines 350-355)
long_mill(self, color, space, friendly_adj) ==
    \E i \in 1..Len(friendly_adj) :
       some_same_line(extra_adj(self, color, space, friendly_adj[i]), space)

\* the two checks of is_mill on friendly_adj
mill_checks(self, color, space, friendly_adj) ==
    middle_mill(friendly_adj) \/ long_mill(self, color, space, friendly_adj)

\* board.is_mill
is_mill(self, color, space) ==
    mill_checks(self, color, space,
                SelectSeq(adjacents(space), LAMBDA s : self.spaces[s] = color))

\* board.is_repetitive_draw; x == y on action objects is identity
is_repetitive_draw(self) ==
    IF Len(self.previous_actions) < MAX_PREVIOUS_ACTIONS
    THEN FALSE
    ELSE LET n == Len(self.previous_actions)
             half == n \div 2
             front == SubSeq(self.previous_actions, 1, half)
             back == SubSeq(self.previous_actions, half + 1, n)
             zipped == IF Len(front) < Len(back) THEN Len(front) ELSE Len(back)
             intersection == {i \in 1..zipped : front[i] = back[i]}
         IN  2 * Cardinality(intersection) = n

\* ------------------------------------------------------------------------
\* board: successor transform, move generation, evaluation
\* ------------------------------------------------------------------------

\* board.result up to its calc_util test (lines 471-487): the deep copy,
\* the move or placement, the capture, add_action and repetition_draw.
\* new_board is the board built, raised whether the lines ended in an
\* exception (the ValueError of list.remove), which leaves no board
result_new_board(self, act) ==
    LET moved == IF act.old_coord # None
                 THEN move(self, act.color, act.old_coord, act.new_coord)
                 ELSE place(self, act.color, act.new_coord)
        raised_move == /\ act.old_coord # None
                       /\ move_raises(self, act.color, act.old_coord)
        removed == IF act.mill_removal_target # None
                   THEN remove(moved, act.mill_removal_target)
                   ELSE moved
        raised_remove == /\ act.mill_removal_target # None
                         /\ removal_raises(moved, act.mill_removal_target)
        added == add_action(removed, act)
        raised == raised_move \/ raised_remove
    IN  [raised |-> raised,
         new_board |-> IF raised THEN None
                       ELSE [added EXCEPT
                                !.repetition_draw = is_repetitive_draw(added)]]

\* will_mill that asks is_mill on the board before the move
will_mill_before_move(self, color, mv) ==
    is_mill(self, color, mv.new_coord)

\* board.will_mill; its self.result(action) leaves calc_util False, so
\* result runs up to its calc_util test and no further
will_mill(self, color, mv) ==
    is_mill(result_new_board(self, mv).new_board, color, mv.new_coord)

\* the body of generate_moves' loop over open spaces (lines 397-408, 419-434
\* and 446-462): the actions appended for one piece (None: a placement) and
\* one open space
appended(self, current_color, piece, space, opp_pieces) ==
    IF will_mill(self, current_color,
                 action(current_color, piece, space, None, self.turn))
    THEN [t \in 1..Len(opp_pieces) |->
             action(current_color, piece, space, opp_pieces[t], self.turn)]
    ELSE << action(current_color, piece, space, None, self.turn) >>

RECURSIVE space_range(_, _, _, _, _, _, _, _, _)

\* space_next whose early return hands back the last action of the pass
space_next_last(actions, test_existence, new) ==
    IF test_existence /\ new # << >>
    THEN [actions |-> Append(actions, new[Len(new)]), returned |-> TRUE]
    ELSE [actions |-> actions \o new, returned |-> FALSE]

\* the end of one pass of "for space in open_spaces": new holds the actions
\* the pass appended; with test_existence the function returns at the first
\* one, otherwise the loop goes on with the next space
space_next(actions, test_existence, new) ==
    IF test_existence /\ new # << >>
    THEN [actions |-> Append(actions, new[1]), returned |-> TRUE]
    ELSE [actions |-> actions \o new, returned |-> FALSE]

\* the passes lo..hi of the loop once those before lo have left r: nothing
\* more if generate_moves has returned
space_rest(self, current_color, piece, open_spaces, opp_pieces, lo, hi, test_existence, r) ==
    IF r.returned
    THEN r
    ELSE space_range(self, current_color, piece, open_spaces, opp_pieces,
                     lo, hi, r.actions, test_existence)

\* the passes lo..hi of "for space in open_spaces", in order: the lower
\* half of them, then the upper half
space_range(self, current_color, piece, open_spaces, opp_pieces, lo, hi, actions, test_existence) ==
    IF lo > hi
    THEN [actions |-> actions, returned |-> FALSE]
    ELSE IF lo = hi
    THEN space_next(actions, test_existence,
                    appended(self, current_color, piece, open_spaces[lo],
                             opp_pieces))
    ELSE space_rest(self, current_color, piece, open_spaces, opp_pieces,
                    (lo + hi) \div 2 + 1, hi, test_existence,
                    space_range(self, current_color, piece, open_spaces,
                                opp_pieces, lo, (lo + hi) \div 2, actions,
                                test_existence))

\* generate_moves' "for space in open_spaces" from index i on; returned
\* tells that generate_moves returned inside the loop
space_loop(self, current_color, piece, open_spaces, opp_pieces, i, actions, test_existence) ==
    space_range(self, current_color, piece, open_spaces, opp_pieces, i,
                Len(open_spaces), actions, test_existence)

RECURSIVE piece_loop(_, _, _, _, _, _, _, _)

\* the end of one pass of "for piece in my_pieces": r is what the loop over
\* the piece's open spaces left
piece_next(self, current_color, my_pieces, opp_pieces, fly, p, test_existence, r) ==
    IF r.returned
    THEN r.actions
    ELSE piece_loop(self, current_color, my_pieces, opp_pieces, fly,
                    p + 1, r.actions, test_existence)

\* generate_moves' "for piece in my_pieces" from index p on; fly tells the
\* flying branch (every open space) from the middle game (open adjacents)
piece_loop(self, current_color, my_pieces, opp_pieces, fly, p, actions, test_existence) ==
    IF p > Len(my_pieces)
    THEN actions
    ELSE piece_next(self, current_color, my_pieces, opp_pieces, fly, p,
                    test_existence,
                    space_loop(self, current_color, my_pieces[p],
                               SelectSeq(IF fly THEN SpaceKeys
                                                ELSE adjacents(my_pieces[p]),
                                         LAMBDA s : self.spaces[s] = "O"),
                               opp_pieces, 1, actions, test_existence))

\* generate_moves whose middle game lets a piece go to any open space
generate_moves_fly_always(self, test_existence) ==
    LET current_color == IF self.turn % 2 = 0 THEN "B" ELSE "W"
        my_pieces == IF current_color = "W" THEN self.white_pieces
                                            ELSE self.black_pieces
        opp_pieces == IF current_color = "W" THEN self.black_pieces
                                             ELSE self.white_pieces
    IN  IF self.turn < 11
        THEN space_loop(self, current_color, None,
                        SelectSeq(SpaceKeys, LAMBDA s : self.spaces[s] = "O"),
                        opp_pieces, 1, << >>, test_existence).actions
        ELSE IF Len(my_pieces) > 3
        THEN piece_loop(self, current_color, my_pieces, opp_pieces, TRUE, 1,
                        << >>, test_existence)
        ELSE IF Len(my_pieces) = 3
        THEN piece_loop(self, current_color, my_pieces, opp_pieces, TRUE, 1,
                        << >>, test_existence)
        ELSE << >>

\* generate_moves whose opening ends one turn early (turn < 10)
generate_moves_turn_10(self, test_existence) ==
    LET current_color == IF self.turn % 2 = 0 THEN "B" ELSE "W"
        my_pieces == IF current_color = "W" THEN self.white_pieces
                                            ELSE self.black_pieces
        opp_pieces == IF current_color = "W" THEN self.black_pieces
                                             ELSE self.white_pieces
    IN  IF self.turn < 10
        THEN space_loop(self, current_color, None,
                        SelectSeq(SpaceKeys, LAMBDA s : self.spaces[s] = "O"),
                        opp_pieces, 1, << >>, test_existence).actions
        ELSE IF Len(my_pieces) > 3
        THEN piece_loop(self, current_color, my_pieces, opp_pieces, FALSE, 1,
                        << >>, test_existence)
        ELSE IF Len(my_pieces) = 3
        THEN piece_loop(self, current_color, my_pieces, opp_pieces, TRUE, 1,
                        << >>, test_existence)
        ELSE << >>

\* generate_moves whose flying branch takes 3 pieces or fewer
generate_moves_fly_le_3(self, test_existence) ==
    LET current_color == IF self.turn % 2 = 0 THEN "B" ELSE "W"
        my_pieces == IF current_color = "W" THEN self.white_pieces
                                            ELSE self.black_pieces
        opp_pieces == IF current_color = "W" THEN self.black_pieces
                                             ELSE self.white_pieces
    IN  IF self.turn < 11
        THEN space_loop(self, current_color, None,
                        SelectSeq(SpaceKeys, LAMBDA s : self.spaces[s] = "O"),
                        opp_pieces, 1, << >>, test_existence).actions
        ELSE IF Len(my_pieces) > 3
        THEN piece_loop(self, current_color, my_pieces, opp_pieces, FALSE, 1,
                        << >>, test_existence)
        ELSE IF Len(my_pieces) <= 3
        THEN piece_loop(self, current_color, my_pieces, opp_pieces, TRUE, 1,
                        << >>, test_existence)
        ELSE << >>

\* generate_moves whose opening lasts two turns longer (turn < 13)
generate_moves_turn_13(self, test_existence) ==
    LET current_color == IF self.turn % 2 = 0 THEN "B" ELSE "W"
        my_pieces == IF current_color = "W" THEN self.white_pieces
                                            ELSE self.black_pieces
        opp_pieces == IF current_color = "W" THEN self.black_pieces
                                             ELSE self.white_pieces
    IN  IF self.turn < 13
        THEN space_loop(self, current_color, None,
                        SelectSeq(SpaceKeys, LAMBDA s : self.spaces[s] = "O"),
                        opp_pieces, 1, << >>, test_existence).actions
        ELSE IF Len(my_pieces) > 3
        THEN piece_loop(self, current_color, my_pieces, opp_pieces, FALSE, 1,
                        << >>, test_existence)
        ELSE IF Len(my_pieces) = 3
        THEN piece_loop(self, current_color, my_pieces, opp_pieces, TRUE, 1,
                        << >>, test_existence)
        ELSE << >>

\* board.generate_moves
generate_moves(self, test_existence) ==
    LET current_color == IF self.turn % 2 = 0 THEN "B" ELSE "W"
        my_pieces == IF current_color = "W" THEN self.white_pieces
                                            ELSE self.black_pieces
        opp_pieces == IF current_color = "W" THEN self.black_pieces
                                             ELSE self.white_pieces
    IN  IF self.turn < 11
        THEN space_loop(self, current_color, None,
                        SelectSeq(SpaceKeys, LAMBDA s : self.spaces[s] = "O"),
                        opp_pieces, 1, << >>, test_existence).actions
        ELSE IF Len(my_pieces) > 3
        THEN piece_loop(self, current_color, my_pieces, opp_pieces, FALSE, 1,
                        << >>, test_existence)
        ELSE IF Len(my_pieces) = 3
        THEN piece_loop(self, current_color, my_pieces, opp_pieces, TRUE, 1,
                        << >>, test_existence)
        ELSE << >>

\* the weights of calculate_utility
NO_MOVES_VALUE == 10000

TWO_PIECES_REMAINING == 20000

PIECE_VALUE == 200

MILL_FORMED == 300

\* calculate_utility whose two-pieces term counts at every turn
calculate_utility_any_turn(self, max_color) ==
    LET current_color == IF self.turn % 2 = 0 THEN "B" ELSE "W"
        my_pieces == IF max_color = "W" THEN self.white_pieces
                                        ELSE self.black_pieces
        opp_pieces == IF max_color = "W" THEN self.black_pieces
                                         ELSE self.white_pieces
        no_moves == IF Len(generate_moves(self, TRUE)) = 0
                    THEN IF current_color = max_color THEN 0 - NO_MOVES_VALUE
                                                      ELSE NO_MOVES_VALUE
                    ELSE 0
        two_pieces == IF Len(my_pieces) = 2
                      THEN 0 - TWO_PIECES_REMAINING
                      ELSE IF Len(opp_pieces) = 2
                      THEN TWO_PIECES_REMAINING
                      ELSE 0
        n == Len(self.previous_actions)
        mill_formed == IF n > 1
                       THEN IF self.previous_actions[n].mill_removal_target # None
                            THEN IF self.previous_actions[n].color = max_color
                                 THEN MILL_FORMED
                                 ELSE 0 - MILL_FORMED
                            ELSE 0
                       ELSE 0
        material_difference == Len(my_pieces) - Len(opp_pieces)
    IN  [self EXCEPT !.utility =
                         IF self.repetition_draw
                         THEN 0
                         ELSE no_moves + two_pieces + mill_formed
                                  + material_difference * PIECE_VALUE]

\* board.calculate_utility: the receiver after the call; the value returned
\* is its utility field
calculate_utility(self, max_color) ==
    LET current_color == IF self.turn % 2 = 0 THEN "B" ELSE "W"
        my_pieces == IF max_color = "W" THEN self.white_pieces
                                        ELSE self.black_pieces
        opp_pieces == IF max_color = "W" THEN self.black_pieces
                                         ELSE self.white_pieces
        no_moves == IF Len(generate_moves(self, TRUE)) = 0
                    THEN IF current_color = max_color THEN 0 - NO_MOVES_VALUE
                                                      ELSE NO_MOVES_VALUE
                    ELSE 0
        two_pieces == IF Len(my_pieces) = 2 /\ self.turn > 10
                      THEN 0 - TWO_PIECES_REMAINING
                      ELSE IF Len(opp_pieces) = 2 /\ self.turn > 10
                      THEN TWO_PIECES_REMAINING
                      ELSE 0
        n == Len(self.previous_actions)
        mill_formed == IF n > 1
                       THEN IF self.previous_actions[n].mill_removal_target # None
                            THEN IF self.previous_actions[n].color = max_color
                                 THEN MILL_FORMED
                                 ELSE 0 - MILL_FORMED
                            ELSE 0
                       ELSE 0
        material_difference == Len(my_pieces) - Len(opp_pieces)
    IN  [self EXCEPT !.utility =
                         IF self.repetition_draw
                         THEN 0
                         ELSE no_moves + two_pieces + mill_formed
                                  + material_difference * PIECE_VALUE]

\* a result that works on the receiver instead of a copy of it
result_in_place(self, act, calc_util, max_color) ==
    [raised |-> result_new_board(self, act).raised,
     new_board |-> result_new_board(self, act).new_board,
     self |-> IF result_new_board(self, act).raised
              THEN self
              ELSE result_new_board(self, act).new_board]

\* board.result.  new_board is the board returned, self the receiver after
\* the call, raised whether the call ended in an exception (no board is
\* returned and the calc_util lines are not run)
result(self, act, calc_util, max_color) ==
    LET built == result_new_board(self, act)
    IN  [raised |-> built.raised,
         new_board |-> built.new_board,
         self |-> IF calc_util /\ ~built.raised
                  THEN calculate_utility(self, max_color)
                  ELSE self]

\* is_terminal that wants both colours down to 2 pieces
is_terminal_both(self) ==
    IF Len(self.white_pieces) = 2 /\ Len(self.black_pieces) = 2
    THEN TRUE
    ELSE Len(generate_moves(self, TRUE)) = 0

\* an is_terminal that only counts the pieces
is_terminal_pieces(self) ==
    Len(self.white_pieces) = 2 \/ Len(self.black_pieces) = 2

\* board.is_terminal
is_terminal(self) ==
    IF Len(self.white_pieces) = 2 \/ Len(self.black_pieces) = 2
    THEN TRUE
    ELSE Len(generate_moves(self, TRUE)) = 0

\* ------------------------------------------------------------------------
\* AI and the game loop of no_player_game
\* ------------------------------------------------------------------------

\* the move of the last pass of "for move in possible_moves"
last(possible_moves) == possible_moves[Len(possible_moves)]

\* AI.ID_AB_minimax with MAX_DEPTH >= 1, as far as the board passed in is
\* concerned.  Only the pass at depth 1 has calc_util true at the root, and
\* there AB_minimax calls board.result(move, True, self.color) for each of
\* possible_moves in turn; each call overwrites the receiver's utility field
\* without reading it, so the receiver after the loop is the receiver after
\* the call for the last move.  The deeper passes and the deeper layers work
\* on the boards result() returned.
searched(self, color) ==
    result(self, last(generate_moves(self, FALSE)), TRUE, color).self

\* a take_turn that never removes a piece
applied_without_capture(self, color, mv) ==
    IF mv.old_coord # None
    THEN move(self, color, mv.old_coord, mv.new_coord)
    ELSE place(self, color, mv.new_coord)

\* AI.take_turn, lines 732-741: the in-place update with the chosen move
applied(self, color, mv) ==
    LET moved == IF mv.old_coord # None
                 THEN move(self, color, mv.old_coord, mv.new_coord)
                 ELSE place(self, color, mv.new_coord)
        mill == is_mill(moved, color, mv.new_coord)
    IN  IF mill THEN remove(moved, mv.mill_removal_target) ELSE moved

\* an opening the exploration follows besides its other choices: the space
\* placed on at each of the turns 1..10, White on the odd turns.  No mill
\* closes on the way, and it leaves White, to move at turn 11, with five
\* pieces and every neighbour of them occupied.
BlockingOpening ==
    << <<"a", 1>>, <<"a", 7>>, <<"a", 4>>, <<"b", 6>>, <<"b", 2>>,
       <<"c", 4>>, <<"b", 4>>, <<"d", 2>>, <<"d", 1>>, <<"g", 1>> >>

\* the board is still on BlockingOpening: every ply so far placed on it
on_opening(self) ==
    /\ self.turn <= Len(BlockingOpening)
    /\ \A k \in 1..(self.turn - 1) :
          self.spaces[BlockingOpening[k]] = IF k % 2 = 1 THEN "W" ELSE "B"

\* the moves the exploration lets an agent choose from possible_moves: the
\* first generated action, the last one, and on BlockingOpening its next
\* placement
Candidates(self, possible_moves) ==
    {possible_moves[i] : i \in {j \in 1..Len(possible_moves) :
        \/ j = 1
        \/ j = Len(possible_moves)
        \/ /\ on_opening(self)
           /\ possible_moves[j].new_coord = BlockingOpening[self.turn]}}

\* one ply of an agent: move = ai.take_turn(b); b.add_action(move).  The
\* move is the copy ID_AB_minimax returns (a fresh action object).
TakeTurn(color) ==
    \E mv \in Candidates(b, generate_moves(b, FALSE)) :
       /\ b' = add_action(applied(searched(b, color), color, mv), mv)
       /\ ret' = [op |-> "take_turn", value |-> mv]

\* no_player_game, phase 1: for i in range(1, 6), AI 1 then AI 2
PlacePly ==
    /\ b.turn < 11
    /\ b.turn < MaxTurn
    /\ TakeTurn(IF b.turn % 2 = 1 THEN "W" ELSE "B")

\* no_player_game, phase 2: while not b.is_terminal(), AI 1, the check
\* again, AI 2
MovePly ==
    /\ b.turn >= 11
    /\ b.turn < MaxTurn
    /\ ~is_terminal(b)
    /\ TakeTurn(IF b.turn % 2 = 1 THEN "W" ELSE "B")

Init ==
    /\ b = board
    /\ ret = [op |-> "board", value |-> None]

Next == PlacePly \/ MovePly

Spec == Init /\ [][Next]_vars

\* ------------------------------------------------------------------------
\* AI: the iterative, depth limited alpha-beta search
\* ------------------------------------------------------------------------
\* color is the AI's self.color.  A board bd passed to result is an object the
\* call may write to (its utility field), so each loop hands the receiver on
\* from one pass to the next; a board returned by result lives for one pass.

RECURSIVE AB_max_value(_, _, _, _, _)

RECURSIVE AB_min_value(_, _, _, _, _)

RECURSIVE max_range(_, _, _, _, _, _, _, _)

RECURSIVE min_range(_, _, _, _, _, _, _, _)

\* AB_max_value, lines 676-683: the alpha update after a pass; returned
\* tells that the function returned alpha inside the loop (beta <= alpha)
max_update(bd, alpha, beta, current_utility) ==
    IF current_utility > alpha
    THEN [alpha |-> current_utility, board |-> bd,
          returned |-> beta <= current_utility]
    ELSE [alpha |-> alpha, board |-> bd, returned |-> beta <= alpha]

\* AB_max_value, lines 671-675: the value of the board r.new_board that
\* result returned; r.self is the receiver after that call
max_next(color, depth, alpha, beta, r) ==
    max_update(r.self, alpha, beta,
               AB_min_value(color, r.new_board, depth - 1, alpha, beta))

\* the passes lo..hi of the loop once those before lo have left r: nothing
\* more if AB_max_value has returned
max_rest(color, possible_moves, lo, hi, depth, beta, r) ==
    IF r.returned
    THEN r
    ELSE max_range(color, r.board, possible_moves, lo, hi, depth, r.alpha,
                   beta)

\* the passes lo..hi of AB_max_value's "for move in possible_moves", in
\* order: the lower half of them, then the upper half
max_range(color, bd, possible_moves, lo, hi, depth, alpha, beta) ==
    IF lo > hi
    THEN [alpha |-> alpha, board |-> bd, returned |-> FALSE]
    ELSE IF lo = hi
    THEN max_next(color, depth, alpha, beta,
                  result(bd, possible_moves[lo], depth = 1, color))
    ELSE max_rest(color, possible_moves, (lo + hi) \div 2 + 1, hi, depth,
                  beta,
                  max_range(color, bd, possible_moves, lo, (lo + hi) \div 2,
                            depth, alpha, beta))

\* AB_max_value's loop: alpha is returned, from inside the loop or after it
max_loop(color, bd, possible_moves, depth, alpha, beta) ==
    max_range(color, bd, possible_moves, 1, Len(possible_moves), depth,
              alpha, beta).alpha

\* AI.AB_max_value: the value returned
AB_max_value(color, bd, depth, alpha, beta) ==
    IF is_terminal(bd)
    THEN calculate_utility(bd, color).utility
    ELSE IF depth = 0
    THEN bd.utility
    ELSE max_loop(color, bd, generate_moves(bd, FALSE), depth, alpha, beta)

\* a min_update that never lowers beta
min_update_keeps_beta(bd, alpha, beta, current_utility) ==
    [beta |-> beta, board |-> bd, returned |-> beta <= alpha]

\* min_update that cuts the loop after every pass
min_update_first(bd, alpha, beta, current_utility) ==
    IF current_utility < beta
    THEN [beta |-> current_utility, board |-> bd, returned |-> TRUE]
    ELSE [beta |-> beta, board |-> bd, returned |-> TRUE]

\* AB_min_value, lines 709-716: the beta update after a pass; returned
\* tells that the function returned beta inside the loop (beta <= alpha)
min_update(bd, alpha, beta, current_utility) ==
    IF current_utility < beta
    THEN [beta |-> current_utility, board |-> bd,
          returned |-> current_utility <= alpha]
    ELSE [beta |-> beta, board |-> bd, returned |-> beta <= alpha]

\* AB_min_value, lines 704-708: the value of the board result returned
min_next(color, depth, alpha, beta, r) ==
    min_update(r.self, alpha, beta,
               AB_max_value(color, r.new_board, depth - 1, alpha, beta))

\* the passes lo..hi of the loop once those before lo have left r: nothing
\* more if AB_min_value has returned
min_rest(color, possible_moves, lo, hi, depth, alpha, r) ==
    IF r.returned
    THEN r
    ELSE min_range(color, r.board, possible_moves, lo, hi, depth, alpha,
                   r.beta)

\* the passes lo..hi of AB_min_value's "for move in possible_moves", in
\* order: the lower half of them, then the upper half
min_range(color, bd, possible_moves, lo, hi, depth, alpha, beta) ==
    IF lo > hi
    THEN [beta |-> beta, board |-> bd, returned |-> FALSE]
    ELSE IF lo = hi
    THEN min_next(color, depth, alpha, beta,
                  result(bd, possible_moves[lo], depth = 1, color))
    ELSE min_rest(color, possible_moves, (lo + hi) \div 2 + 1, hi, depth,
                  alpha,
                  min_range(color, bd, possible_moves, lo, (lo + hi) \div 2,
                            depth, alpha, beta))

\* AB_min_value's loop: beta is returned, from inside the loop or after it
min_loop(color, bd, possible_moves, depth, alpha, beta) ==
    min_range(color, bd, possible_moves, 1, Len(possible_moves), depth,
              alpha, beta).beta

\* AI.AB_min_value: the value returned
AB_min_value(color, bd, depth, alpha, beta) ==
    IF is_terminal(bd)
    THEN calculate_utility(bd, color).utility
    ELSE IF depth = 0
    THEN bd.utility
    ELSE min_loop(color, bd, generate_moves(bd, FALSE), depth, alpha, beta)

RECURSIVE root_range(_, _, _, _, _, _, _, _)

\* a root update that also replaces max_action on an equal value
root_update_equal(bd, mv, alpha, max_action, current_utility) ==
    IF current_utility >= alpha
    THEN [alpha |-> current_utility, max_action |-> mv, board |-> bd,
          raised |-> FALSE]
    ELSE [alpha |-> alpha, max_action |-> max_action, board |-> bd,
          raised |-> FALSE]

\* AB_minimax, lines 646-649: a strictly larger value replaces max_action
root_update(bd, mv, alpha, max_action, current_utility) ==
    IF current_utility > alpha
    THEN [alpha |-> current_utility, max_action |-> mv, board |-> bd,
          raised |-> FALSE]
    ELSE [alpha |-> alpha, max_action |-> max_action, board |-> bd,
          raised |-> FALSE]

\* AB_minimax, lines 640-645: beta is still 100000 at the root; an
\* exception of board.result ends AB_minimax
root_next(color, mv, depth, alpha, max_action, r) ==
    IF r.raised
    THEN [alpha |-> alpha, max_action |-> max_action, board |-> r.self,
          raised |-> TRUE]
    ELSE root_update(r.self, mv, alpha, max_action,
                     AB_min_value(color, r.new_board, depth - 1, alpha,
                                  100000))

\* the passes lo..hi of the loop once those before lo have left r: nothing
\* more if one of them raised
root_rest(color, possible_moves, lo, hi, depth, r) ==
    IF r.raised
    THEN r
    ELSE root_range(color, r.board, possible_moves, lo, hi, depth, r.alpha,
                    r.max_action)

\* the passes lo..hi of AB_minimax's "for move in possible_moves", in
\* order: the lower half of them, then the upper half; bd is the board the
\* caller passed
root_range(color, bd, possible_moves, lo, hi, depth, alpha, max_action) ==
    IF lo > hi
    THEN [alpha |-> alpha, max_action |-> max_action, board |-> bd,
          raised |-> FALSE]
    ELSE IF lo = hi
    THEN root_next(color, possible_moves[lo], depth, alpha, max_action,
                   result(bd, possible_moves[lo], depth = 1, color))
    ELSE root_rest(color, possible_moves, (lo + hi) \div 2 + 1, hi, depth,
                   root_range(color, bd, possible_moves, lo,
                              (lo + hi) \div 2, depth, alpha, max_action))

\* AB_minimax, lines 626-650, once board.generate_moves() has returned:
\* possible_moves[0] raises IndexError on a board without moves
root_loop(color, bd, possible_moves, depth) ==
    IF possible_moves = << >>
    THEN [alpha |-> -100000, max_action |-> None, board |-> bd,
          raised |-> TRUE]
    ELSE root_range(color, bd, possible_moves, 1, Len(possible_moves),
                    depth, -100000, possible_moves[1])

\* what AB_minimax hands to its caller: the action max_action, and the
\* caller's board as the calls of result have left it
root_return(r) ==
    [action |-> r.max_action, board |-> r.board, raised |-> r.raised]

\* AI.AB_minimax
AB_minimax(color, bd, depth) ==
    root_return(root_loop(color, bd, generate_moves(bd, FALSE), depth))

RECURSIVE id_loop(_, _, _, _, _)

\* the step of an ID_AB_minimax that stops after the pass it has just run
id_next_first(color, iterative_depth, MAX_DEPTH, found) ==
    IF found.raised
    THEN found
    ELSE id_loop(color, found.board, MAX_DEPTH + 1, MAX_DEPTH, found.action)

\* ID_AB_minimax, line 619: result is bound to a copy of the action that
\* this pass returned, and the next pass runs on the same board object; an
\* exception of AB_minimax ends ID_AB_minimax
id_next(color, iterative_depth, MAX_DEPTH, found) ==
    IF found.raised
    THEN found
    ELSE id_loop(color, found.board, iterative_depth + 1, MAX_DEPTH,
                 found.action)

\* ID_AB_minimax's "while iterative_depth <= self.MAX_DEPTH"
id_loop(color, bd, iterative_depth, MAX_DEPTH, found_action) ==
    IF iterative_depth > MAX_DEPTH
    THEN [action |-> found_action, board |-> bd, raised |-> FALSE]
    ELSE id_next(color, iterative_depth, MAX_DEPTH,
                 AB_minimax(color, bd, iterative_depth))

\* AI.ID_AB_minimax of an AI(color, MAX_DEPTH): the action returned and the
\* caller's board afterwards
ID_AB_minimax(color, bd, MAX_DEPTH) ==
    id_loop(color, bd, 1, MAX_DEPTH, None)

\* ------------------------------------------------------------------------
\* Games of searching agents
\* ------------------------------------------------------------------------
\* an opening that agents built with random=True may happen to play: the
\* space placed on at each of the turns 1..8, White on the odd turns.  No
\* mill closes on the way; White, to move at turn 9, can then close g1-g4-g7,
\* and no single ply leaves a side with two pieces or without a move.
MillOpening ==
    << <<"g", 1>>, <<"b", 2>>, <<"g", 4>>, <<"c", 3>>, <<"e", 5>>,
       <<"d", 5>>, <<"f", 6>>, <<"e", 4>> >>

\* the board is still on MillOpening: every ply so far placed on it
on_mill_opening(self) ==
    /\ self.turn <= Len(MillOpening)
    /\ \A k \in 1..(self.turn - 1) :
          self.spaces[MillOpening[k]] = IF k % 2 = 1 THEN "W" ELSE "B"

\* the choices of random.randint that the exploration follows: on
\* MillOpening its next placement
Drawn(self, actions) ==
    {actions[i] : i \in {j \in 1..Len(actions) :
        /\ on_mill_opening(self)
        /\ actions[j].new_coord = MillOpening[self.turn]}}

\* one ply of an AI(color, depth, random=True): lines 726-728, then the
\* in-place update and b.add_action(move)
RandomTurn(color) ==
    \E mv \in Drawn(b, generate_moves(b, FALSE)) :
       /\ b' = add_action(applied(b, color, mv), mv)
       /\ ret' = [op |-> "take_turn", value |-> mv]

\* AI.take_turn, lines 731-741, once ID_AB_minimax has returned found; an
\* exception of the search leaves take_turn before it updates the board
Chosen(color, found) ==
    /\ ~found.raised
    /\ b' = add_action(applied(found.board, color, found.action),
                       found.action)
    /\ ret' = [op |-> "take_turn", value |-> found.action]

\* one ply of an AI(color, MAX_DEPTH)
SearchTurn(color, MAX_DEPTH) ==
    Chosen(color, ID_AB_minimax(color, b, MAX_DEPTH))

\* a ply of the game loops by an agent that draws its move
RandomPly ==
    /\ b.turn < MaxSearchTurn
    /\ b.turn >= 11 => ~is_terminal(b)
    /\ RandomTurn(IF b.turn % 2 = 1 THEN "W" ELSE "B")

\* a ply of the game loops by an agent that searches to one of the depths
SearchPly ==
    /\ b.turn < MaxSearchTurn
    /\ b.turn >= 11 => ~is_terminal(b)
    /\ \E MAX_DEPTH \in 1..MaxDepth :
          SearchTurn(IF b.turn % 2 = 1 THEN "W" ELSE "B", MAX_DEPTH)

NextSearch == RandomPly \/ SearchPly

SpecSearch == Init /\ [][NextSearch]_vars

\* ------------------------------------------------------------------------
\* A harness for the pure queries: boards built by board.place alone
\* ------------------------------------------------------------------------

\* b.place(color, space) on the i-th space of board.spaces, the spaces
\* filled in key order (every space from the i-th on is still open); ret is
\* the value place returns, is_mill(color, space)
HarnessPlace(color, i) ==
    /\ Len(b.white_pieces) + Len(b.black_pieces) < MaxHarnessPieces
    /\ \A j \in i..Len(SpaceKeys) : b.spaces[SpaceKeys[j]] = "O"
    /\ b' = place(b, color, SpaceKeys[i])
    /\ ret' = [op |-> "place", value |-> is_mill(b', color, SpaceKeys[i])]

NextMill ==
    \E color \in Colors, i \in 1..Len(SpaceKeys) : HarnessPlace(color, i)

SpecMill == Init /\ [][NextMill]_vars

\* ------------------------------------------------------------------------
\* Mill detection against the lines of the board
\* ------------------------------------------------------------------------

\* the sixteen three-point lines drawn by board.display: eight rows and
\* eight columns
MarkedLines ==
    { { <<"a", 7>>, <<"d", 7>>, <<"g", 7>> },
      { <<"b", 6>>, <<"d", 6>>, <<"f", 6>> },
      { <<"c", 5>>, <<"d", 5>>, <<"e", 5>> },
      { <<"a", 4>>, <<"b", 4>>, <<"c", 4>> },
      { <<"e", 4>>, <<"f", 4>>, <<"g", 4>> },
      { <<"c", 3>>, <<"d", 3>>, <<"e", 3>> },
      { <<"b", 2>>, <<"d", 2>>, <<"f", 2>> },
      { <<"a", 1>>, <<"d", 1>>, <<"g", 1>> },
      { <<"a", 1>>, <<"a", 4>>, <<"a", 7>> },
      { <<"b", 2>>, <<"b", 4>>, <<"b", 6>> },
      { <<"c", 3>>, <<"c", 4>>, <<"c", 5>> },
      { <<"d", 1>>, <<"d", 2>>, <<"d", 3>> },
      { <<"d", 5>>, <<"d", 6>>, <<"d", 7>> },
      { <<"e", 3>>, <<"e", 4>>, <<"e", 5>> },
      { <<"f", 2>>, <<"f", 4>>, <<"f", 6>> },
      { <<"g", 1>>, <<"g", 4>>, <<"g", 7>> } }

\* space lies on a marked line whose other two points hold color
on_full_line(spaces, color, space) ==
    \E line \in MarkedLines :
        /\ space \in line
        /\ \A q \in line \ {space} : spaces[q] = color

\* C4: for every occupancy, colour c and position p, is_mill(c, p) is true
\* exactly when p lies on one of the sixteen marked lines whose other two
\* points are both occupied by c.
C4_MillIffMarkedLine ==
    \A color \in Colors, space \in Spaces :
        is_mill(b, color, space) <=> on_full_line(b.spaces, color, space)

\* C4 witness: the piece just placed is reported to close a mill, and it
\* does lie on a full line
C4_Witness ==
    /\ ret.op = "place"
    /\ ret.value = TRUE
    /\ Len(b.white_pieces) = 3
    /\ on_full_line(b.spaces, "W", b.white_pieces[3])

\* the column mirror a<->g, b<->f, c<->e, d fixed
mirror(space) ==
    << CASE space[1] = "a" -> "g" [] space[1] = "b" -> "f"
         [] space[1] = "c" -> "e" [] space[1] = "d" -> "d"
         [] space[1] = "e" -> "c" [] space[1] = "f" -> "b"
         [] space[1] = "g" -> "a",
       space[2] >>

\* the board whose occupancy is the mirror image of self's
mirrored(self) ==
    [self EXCEPT !.spaces = [s \in Spaces |-> self.spaces[mirror(s)]],
                 !.white_pieces = [i \in 1..Len(@) |-> mirror(@[i])],
                 !.black_pieces = [i \in 1..Len(@) |-> mirror(@[i])]]

\* C5: is_mill is invariant under the column mirror: is_mill(c, p) on a
\* board equals is_mill(c, mirror(p)) on the mirrored board.
C5_MillMirror ==
    LET image == mirrored(b)
    IN  \A color \in Colors, space \in Spaces :
            is_mill(b, color, space) = is_mill(image, color, mirror(space))

\* C5 witness: a mill closed off the d column, so that its mirror image is
\* another line of the board
C5_Witness ==
    /\ ret.op = "place"
    /\ ret.value = TRUE
    /\ \E i \in 1..Len(b.black_pieces) :
          /\ b.black_pieces[i][1] = "g"
          /\ is_mill(b, "B", b.black_pieces[i])
          /\ is_mill(mirrored(b), "B", mirror(b.black_pieces[i]))

\* ------------------------------------------------------------------------
\* The successor transform
\* ------------------------------------------------------------------------

\* the colour of the side to move
mover(self) == IF self.turn % 2 = 0 THEN "B" ELSE "W"

\* the piece list of a colour
pieces(self, color) ==
    IF color = "W" THEN self.white_pieces ELSE self.black_pieces

\* the other colour
opponent(color) == IF color = "W" THEN "B" ELSE "W"

\* C1: result never mutates the board it is called on: for every generated
\* action and both values of calc_util, every field of the receiver reads
\* the same after the call as before it.
C1_ReceiverUnchanged ==
    LET possible_moves == generate_moves(b, FALSE)
    IN  \A i \in 1..Len(possible_moves), calc_util \in BOOLEAN,
           max_color \in Colors :
           result(b, possible_moves[i], calc_util, max_color).self = b

\* C2: result is repeatable: two calls in a row on the same board with the
\* same arguments return boards identical in every field.
C2_TwiceSame ==
    LET possible_moves == generate_moves(b, FALSE)
    IN  \A i \in 1..Len(possible_moves), calc_util \in BOOLEAN,
           max_color \in Colors :
           LET first == result(b, possible_moves[i], calc_util, max_color)
               second == result(first.self, possible_moves[i], calc_util,
                                max_color)
           IN  first.new_board = second.new_board

\* the actions the rules of C3 call illegal on a board
illegal(self, act) ==
    \/ self.spaces[act.new_coord] # "O"
    \/ /\ act.old_coord # None
       /\ self.spaces[act.old_coord] # act.color
    \/ /\ act.mill_removal_target # None
       /\ self.spaces[act.mill_removal_target] \in {"O", act.color}

\* C3: result rejects an illegal action with an error and returns no board:
\* an occupied destination, a source not occupied by the action's colour, a
\* capture target that is empty or of the mover's own colour.
C3_IllegalRejected ==
    \A color \in Colors, old_coord \in Spaces \cup {None},
       new_coord \in Spaces, target \in Spaces \cup {None} :
       LET act == action(color, old_coord, new_coord, target, b.turn)
       IN  illegal(b, act)
               => /\ result(b, act, FALSE, None).raised
                  /\ result(b, act, FALSE, None).new_board = None

\* ------------------------------------------------------------------------
\* Move generation
\* ------------------------------------------------------------------------

\* the mover is in the middle game: past the opening, more than 3 pieces
normal_phase(self) == self.turn >= 11 /\ Len(pieces(self, mover(self))) > 3

\* the mover flies: past the opening, exactly 3 pieces
flying_phase(self) == self.turn >= 11 /\ Len(pieces(self, mover(self))) = 3

\* C6: no generated action has an occupied destination; in the normal
\* movement phase every generated action goes from a space the mover
\* occupies to a space adjacent to it.
C6_DestinationsLegal ==
    LET possible_moves == generate_moves(b, FALSE)
    IN  \A i \in 1..Len(possible_moves) :
           LET act == possible_moves[i]
           IN  /\ b.spaces[act.new_coord] = "O"
               /\ normal_phase(b) =>
                     /\ act.old_coord # None
                     /\ b.spaces[act.old_coord] = mover(b)
                     /\ contains(adjacents(act.old_coord), act.new_coord)

\* C6 witness: a middle-game board, reached by a move, with moves to make
C6_Witness ==
    /\ ret.op = "take_turn"
    /\ ret.value.old_coord # None
    /\ normal_phase(b)
    /\ generate_moves(b, FALSE) # << >>

\* C7: generate_moves is complete for the side to move (White on odd turns):
\* in the opening every open space is the destination of a placement; in the
\* middle game every (own piece, open adjacent space) pair appears; when
\* flying every (own piece, open space) pair appears; every action carries
\* the mover's colour.
C7_Complete ==
    LET possible_moves == generate_moves(b, FALSE)
        color == IF b.turn % 2 = 1 THEN "W" ELSE "B"
        open == {s \in Spaces : b.spaces[s] = "O"}
        own == {s \in Spaces : b.spaces[s] = color}
        has(old_coord, new_coord) ==
            \E i \in 1..Len(possible_moves) :
                /\ possible_moves[i].old_coord = old_coord
                /\ possible_moves[i].new_coord = new_coord
    IN  /\ \A i \in 1..Len(possible_moves) : possible_moves[i].color = color
        /\ b.turn < 11 => \A s \in open : has(None, s)
        /\ normal_phase(b) =>
              \A piece \in own, s \in open :
                  contains(adjacents(piece), s) => has(piece, s)
        /\ flying_phase(b) => \A piece \in own, s \in open : has(piece, s)

\* C7 witness: a board, reached by a ply, on which the mover flies
C7_Witness ==
    /\ ret.op = "take_turn"
    /\ flying_phase(b)
    /\ generate_moves(b, FALSE) # << >>

\* C8: a generated action carries a capture exactly when its ply puts the
\* moved or placed piece on a full marked line; such a ply yields exactly one
\* action per opponent piece, each target a space the opponent occupies; any
\* other ply yields exactly one action, without capture.
C8_CaptureIffMill ==
    LET possible_moves == generate_moves(b, FALSE)
        n == Len(possible_moves)
        color == mover(b)
        opp_pieces == pieces(b, opponent(color))
        after(act) == [s \in Spaces |->
                          IF s = act.new_coord THEN color
                          ELSE IF s = act.old_coord THEN "O"
                          ELSE b.spaces[s]]
        closes(act) == on_full_line(after(act), color, act.new_coord)
        same_ply(i) == {j \in 1..n :
                           /\ possible_moves[j].old_coord = possible_moves[i].old_coord
                           /\ possible_moves[j].new_coord = possible_moves[i].new_coord}
    IN  \A i \in 1..n :
           LET act == possible_moves[i]
           IN  /\ (act.mill_removal_target # None) <=> closes(act)
               /\ closes(act) =>
                     /\ b.spaces[act.mill_removal_target] = opponent(color)
                     /\ Cardinality(same_ply(i)) = Len(opp_pieces)
                     /\ \A t \in 1..Len(opp_pieces) :
                           Cardinality({j \in same_ply(i) :
                               possible_moves[j].mill_removal_target = opp_pieces[t]}) = 1
               /\ ~closes(act) => Cardinality(same_ply(i)) = 1

\* C8 witness: a board, reached by a capturing ply, whose generated actions
\* hold a capture and a plain action
C8_Witness ==
    LET possible_moves == generate_moves(b, FALSE)
    IN  /\ ret.op = "take_turn"
        /\ ret.value.mill_removal_target # None
        /\ \E i, j \in 1..Len(possible_moves) :
              /\ possible_moves[i].mill_removal_target # None
              /\ possible_moves[j].mill_removal_target = None

\* C9 as stated: whenever the side to move has exactly 2 pieces,
\* generate_moves returns no action, at any turn number.
C9_TwoPiecesNoMoves ==
    Len(pieces(b, mover(b))) = 2 => generate_moves(b, FALSE) = << >>

\* C9 amended: whenever the opening is over (turn >= 11) and the side to
\* move has exactly 2 pieces, generate_moves returns no action.
C9_TwoPiecesNoMovesAfterOpening ==
    (b.turn >= 11 /\ Len(pieces(b, mover(b))) = 2)
        => generate_moves(b, FALSE) = << >>

\* C9 witness: after the opening, a capture has left the mover 2 pieces
C9_Witness ==
    /\ ret.op = "take_turn"
    /\ ret.value.mill_removal_target # None
    /\ b.turn >= 11
    /\ Len(pieces(b, mover(b))) = 2

\* C10: is_terminal is true exactly when either colour has exactly 2 pieces
\* or generate_moves for the side to move is empty.
C10_TerminalIff ==
    is_terminal(b) <=> \/ Len(b.white_pieces) = 2
                       \/ Len(b.black_pieces) = 2
                       \/ generate_moves(b, FALSE) = << >>

\* C10 witness: the game loop's check finds a board on which both colours
\* have more than 2 pieces and the side to move has no move
C10_Witness ==
    /\ ret.op = "take_turn"
    /\ b.turn >= 11
    /\ Len(b.white_pieces) > 2
    /\ Len(b.black_pieces) > 2
    /\ is_terminal(b)

\* ------------------------------------------------------------------------
\* The existence probe
\* ------------------------------------------------------------------------

\* C11: the existence probe agrees with full enumeration: on every reachable
\* board generate_moves(True) is empty exactly when generate_moves(False)
\* is, and otherwise holds exactly one action, the first of
\* generate_moves(False).
C11_ProbeAgrees ==
    LET possible_moves == generate_moves(b, FALSE)
        actions == generate_moves(b, TRUE)
    IN  /\ (actions = << >>) <=> (possible_moves = << >>)
        /\ possible_moves # << >> => actions = << possible_moves[1] >>

\* C11 witness: a board, reached by a ply, whose first generated action
\* closes a mill with more than one piece to capture, so that the probe
\* returns from inside the loop over the targets
C11_Witness ==
    LET possible_moves == generate_moves(b, FALSE)
    IN  /\ ret.op = "take_turn"
        /\ Len(possible_moves) > 1
        /\ possible_moves[1].mill_removal_target # None
        /\ possible_moves[2].new_coord = possible_moves[1].new_coord
        /\ generate_moves(b, TRUE) = << possible_moves[1] >>

\* ------------------------------------------------------------------------
\* A harness for the history: boards built by board.add_action alone
\* ------------------------------------------------------------------------

\* the n-th ply of two pieces shuttling, White a1-a4 and Black g7-g4, there
\* and back; id names the action object made for it
shuttle(n, id) ==
    CASE n % 4 = 1 -> action("W", <<"a", 1>>, <<"a", 4>>, None, id)
      [] n % 4 = 2 -> action("B", <<"g", 7>>, <<"g", 4>>, None, id)
      [] n % 4 = 3 -> action("W", <<"a", 4>>, <<"a", 1>>, None, id)
      [] OTHER     -> action("B", <<"g", 4>>, <<"g", 7>>, None, id)

\* the n-th ply made by the same piece to its other neighbour
detour(n, id) ==
    CASE n % 4 = 1 -> action("W", <<"a", 1>>, <<"d", 1>>, None, id)
      [] n % 4 = 2 -> action("B", <<"g", 7>>, <<"d", 7>>, None, id)
      [] n % 4 = 3 -> action("W", <<"a", 4>>, <<"b", 4>>, None, id)
      [] OTHER     -> action("B", <<"g", 4>>, <<"f", 4>>, None, id)

\* the number of the ply that follows the history.  The harness names the
\* object it makes for ply n by n, and the first eight plies are new
\* objects, so the oldest action recorded tells how many have been dropped
next_ply(self) ==
    IF self.previous_actions = << >>
    THEN 1
    ELSE Len(self.previous_actions) + self.previous_actions[1].id

\* the actions the harness passes to add_action on a history of n actions:
\* the first eight are new objects for the shuttle; from the ninth on, the
\* object recorded eight plies earlier, a new object for the same ply, or a
\* new object for the detour
HistoryInputs(self) ==
    LET n == Len(self.previous_actions)
    IN  IF n < MAX_PREVIOUS_ACTIONS \div 2
        THEN {shuttle(n + 1, n + 1)}
        ELSE {self.previous_actions[n + 1 - MAX_PREVIOUS_ACTIONS \div 2],
              shuttle(next_ply(self), next_ply(self)),
              detour(next_ply(self), next_ply(self))}

\* b.add_action(act), on a full history too, up to ply MaxHistoryPly
HistoryAdd(act) ==
    /\ next_ply(b) <= MaxHistoryPly
    /\ b' = add_action(b, act)
    /\ ret' = [op |-> "add_action", value |-> act]

\* b.place('W', ('d', 2)) on the new board: the histories are recorded on
\* the empty board and on a board with one piece (d2 is no space of the
\* shuttle or the detour)
HistoryPlace ==
    /\ b.turn = 1
    /\ b.previous_actions = << >>
    /\ b' = place(b, "W", <<"d", 2>>)
    /\ ret' = [op |-> "place", value |-> <<"d", 2>>]

NextHistory ==
    \/ HistoryPlace
    \/ \E act \in HistoryInputs(b) : HistoryAdd(act)

SpecHistory == Init /\ [][NextHistory]_vars

\* two actions with the same colour, source, destination and capture
structurally_equal(x, y) ==
    /\ x.color = y.color
    /\ x.old_coord = y.old_coord
    /\ x.new_coord = y.new_coord
    /\ x.mill_removal_target = y.mill_removal_target

\* C12: is_repetitive_draw is true exactly when the history holds 16
\* actions and each action of the first half is structurally equal to the
\* action eight plies later, whether or not the two are one object.
C12_StructuralRepetition ==
    is_repetitive_draw(b) <=>
        /\ Len(b.previous_actions) = MAX_PREVIOUS_ACTIONS
        /\ \A i \in 1..(MAX_PREVIOUS_ACTIONS \div 2) :
              structurally_equal(b.previous_actions[i],
                  b.previous_actions[i + MAX_PREVIOUS_ACTIONS \div 2])

\* ------------------------------------------------------------------------
\* Piece counts
\* ------------------------------------------------------------------------

\* C13: applying a generated action with result changes the piece counts
\* exactly so: a placement raises the mover's count by 1, a movement leaves
\* it unchanged, a capture lowers the opponent's count by exactly 1, a ply
\* without capture leaves the opponent's count unchanged.
C13_CountsAfterResult ==
    LET possible_moves == generate_moves(b, FALSE)
        my == Len(pieces(b, mover(b)))
        opp == Len(pieces(b, opponent(mover(b))))
    IN  \A i \in 1..Len(possible_moves) :
           LET act == possible_moves[i]
               new_board == result(b, act, FALSE, None).new_board
               new_my == Len(pieces(new_board, mover(b)))
               new_opp == Len(pieces(new_board, opponent(mover(b))))
           IN  /\ new_board # None
               /\ act.old_coord = None => new_my = my + 1
               /\ act.old_coord # None => new_my = my
               /\ act.mill_removal_target # None => new_opp = opp - 1
               /\ act.mill_removal_target = None => new_opp = opp

\* C13 witness: a board, reached by a ply, whose generated actions hold a
\* movement with a capture and a movement without
C13_Witness ==
    LET possible_moves == generate_moves(b, FALSE)
    IN  /\ ret.op = "take_turn"
        /\ \E i, j \in 1..Len(possible_moves) :
              /\ possible_moves[i].old_coord # None
              /\ possible_moves[i].mill_removal_target # None
              /\ possible_moves[j].old_coord # None
              /\ possible_moves[j].mill_removal_target = None

\* the elements of a list
elements(list) == {list[i] : i \in 1..Len(list)}

\* the piece lists of a board agree with its occupancy: each list holds
\* exactly the spaces of its colour, without a duplicate, and no space is in
\* both
lists_match_spaces(self) ==
    /\ elements(self.white_pieces) = {s \in Spaces : self.spaces[s] = "W"}
    /\ elements(self.black_pieces) = {s \in Spaces : self.spaces[s] = "B"}
    /\ Cardinality(elements(self.white_pieces)) = Len(self.white_pieces)
    /\ Cardinality(elements(self.black_pieces)) = Len(self.black_pieces)
    /\ elements(self.white_pieces) \cap elements(self.black_pieces) = {}

\* C14: on every board reached from a new board by generated actions,
\* through AI.take_turn or through result, white_pieces is exactly the set
\* of spaces holding 'W', black_pieces the set holding 'B', neither list has
\* a duplicate and no space is in both.
C14_ListsMatchSpaces ==
    LET possible_moves == generate_moves(b, FALSE)
    IN  /\ lists_match_spaces(b)
        /\ \A i \in 1..Len(possible_moves) :
              lists_match_spaces(
                  result(b, possible_moves[i], FALSE, None).new_board)

\* C14 witness: a board reached by a movement that captured, with a
\* capturing movement among its generated actions
C14_Witness ==
    LET possible_moves == generate_moves(b, FALSE)
    IN  /\ ret.op = "take_turn"
        /\ ret.value.old_coord # None
        /\ ret.value.mill_removal_target # None
        /\ \E i \in 1..Len(possible_moves) :
              /\ possible_moves[i].old_coord # None
              /\ possible_moves[i].mill_removal_target # None

\* what one ply may do to the piece count of color: it grows, by one, only
\* on a placement of color made at a turn from 1 to 10, and it shrinks, by
\* one, only on a ply of the other colour that carries a capture
count_step(color) ==
    LET before == Len(pieces(b, color))
        after == Len(pieces(b', color))
    IN  /\ after > before =>
              /\ after = before + 1
              /\ b.turn \in 1..10
              /\ mover(b) = color
              /\ ret'.value.old_coord = None
        /\ after < before =>
              /\ after = before - 1
              /\ mover(b) = opponent(color)
              /\ ret'.value.mill_removal_target # None
        /\ after <= 9

\* C15: along every play from a new board each colour's piece count starts
\* at 0, increases only on that colour's placement plies at turns 1 to 10
\* (so at most 5 placements per side), never exceeds 9, and decreases only
\* when the opponent's ply carries a capture.
C15_CountsAlongPlay ==
    /\ Len(b.white_pieces) = 0 /\ Len(b.black_pieces) = 0
    /\ [][count_step("W") /\ count_step("B")]_vars

\* C15 witness: the opening is over, one colour has placed its five pieces
\* and kept them, the other has lost a piece to a capture
C15_Witness ==
    /\ ret.op = "take_turn"
    /\ b.turn = 11
    /\ \E color \in Colors :
          /\ Len(pieces(b, color)) = 5
          /\ Len(pieces(b, opponent(color))) < 5


\* ------------------------------------------------------------------------
\* C16: ID_AB_minimax returns the action of its deepest pass
\* ------------------------------------------------------------------------

\* the board a call of ID_AB_minimax with MAX_DEPTH = n hands to its pass at
\* depth n: the caller's board after the passes at the depths 1..n-1
RECURSIVE before_pass(_, _, _)
before_pass(color, bd, n) ==
    IF n = 1
    THEN bd
    ELSE AB_minimax(color, before_pass(color, bd, n - 1), n - 1).board

\* C16: for every n in 1..MaxDepth, ID_AB_minimax of an AI(color, n) returns
\* the action that AB_minimax at depth n returns on the board the passes at
\* the depths 1..n-1 have left, whatever actions those passes returned.
C16_DeepestPassReturned ==
    \A n \in 1..MaxDepth :
       generate_moves(b, FALSE) # << >> =>
          ID_AB_minimax(mover(b), b, n).action
             = AB_minimax(mover(b), before_pass(mover(b), b, n), n).action

\* a board an agent has just moved on, where the pass at depth 1 finds one
\* action and ID_AB_minimax with MAX_DEPTH = 2 returns another one
C16_Witness ==
    /\ ret.op = "take_turn"
    /\ generate_moves(b, FALSE) # << >>
    /\ ID_AB_minimax(mover(b), b, 2).action
          # ID_AB_minimax(mover(b), b, 1).action


\* ------------------------------------------------------------------------
\* C17: ID_AB_minimax called twice
\* ------------------------------------------------------------------------

\* two actions agree in colour, source, destination and capture
same_action(x, y) ==
    /\ x.color = y.color
    /\ x.old_coord = y.old_coord
    /\ x.new_coord = y.new_coord
    /\ x.mill_removal_target = y.mill_removal_target

\* C17: for every depth n in 1..MaxDepth, an AI(color, n) of the side to
\* move that is asked twice for its action on the board b (the second call
\* gets the board as the first call left it) returns actions of the same
\* colour, source, destination and capture.
C17_TwiceSameAction ==
    \A n \in 1..MaxDepth :
       generate_moves(b, FALSE) # << >> =>
          same_action(
             ID_AB_minimax(mover(b), b, n).action,
             ID_AB_minimax(mover(b), ID_AB_minimax(mover(b), b, n).board,
                           n).action)


\* ------------------------------------------------------------------------
\* C18: the search and an open mill
\* ------------------------------------------------------------------------

\* the value the pass at depth n backs up for the root action mv, with the
\* window still open: alpha = -100000, beta = 100000
backed_up(color, bd, mv, n) ==
    AB_min_value(color, result(bd, mv, n = 1, color).new_board, n - 1,
                 -100000, 100000)

\* the side to move has an action with a capture and one without, and no
\* action leads to a terminal board
open_mill(self, possible_moves) ==
    /\ \E i \in 1..Len(possible_moves) :
          possible_moves[i].mill_removal_target # None
    /\ \E i \in 1..Len(possible_moves) :
          possible_moves[i].mill_removal_target = None
    /\ \A i \in 1..Len(possible_moves) :
          ~is_terminal(result_new_board(self, possible_moves[i]).new_board)

\* the action chosen at depth n closes a mill, and its backed-up value is
\* above that of every action without a capture
mill_preferred(self, possible_moves, found, n) ==
    /\ found.action.mill_removal_target # None
    /\ \A i \in 1..Len(possible_moves) :
          possible_moves[i].mill_removal_target = None =>
             backed_up(mover(self), before_pass(mover(self), self, n),
                       found.action, n)
                > backed_up(mover(self), before_pass(mover(self), self, n),
                            possible_moves[i], n)

\* C18: on a board where the side to move has an action that closes a mill
\* and an action that does not, and no successor is terminal, for every
\* depth n in 2..MaxDepth ID_AB_minimax returns an action that closes a mill
\* and whose backed-up value is strictly above that of every other kind.
C18_MillPreferred ==
    \A n \in 2..MaxDepth :
       open_mill(b, generate_moves(b, FALSE)) =>
          mill_preferred(b, generate_moves(b, FALSE),
                         ID_AB_minimax(mover(b), b, n), n)


\* ------------------------------------------------------------------------
\* C19: the game loop and the end of the game
\* ------------------------------------------------------------------------

\* C19: no ply of the game loop starts from a board on which is_terminal()
\* or is_repetitive_draw() is true: once a ply has made either of them
\* true, play has stopped.
C19_StopsWhenOver ==
    [][~(is_terminal(b) \/ is_repetitive_draw(b))]_vars


\* ------------------------------------------------------------------------
\* C20: the value of calculate_utility
\* ------------------------------------------------------------------------

\* -10000 / +10000 when the side to move has no legal action
no_moves_term(self, max_color) ==
    IF generate_moves(self, FALSE) = << >>
    THEN IF mover(self) = max_color THEN -10000 ELSE 10000
    ELSE 0

\* -20000 when max_color has exactly 2 pieces, else +20000 when the
\* opponent has exactly 2, both only when turn > 10
two_pieces_term(self, max_color) ==
    IF self.turn > 10 /\ Len(pieces(self, max_color)) = 2
    THEN -20000
    ELSE IF self.turn > 10 /\ Len(pieces(self, opponent(max_color))) = 2
    THEN 20000
    ELSE 0

\* +300 / -300 when the most recent action of the history carries a capture
capture_term(self, max_color) ==
    IF /\ self.previous_actions # << >>
       /\ self.previous_actions[Len(self.previous_actions)].mill_removal_target
             # None
    THEN IF self.previous_actions[Len(self.previous_actions)].color = max_color
         THEN 300
         ELSE -300
    ELSE 0

\* 200 times the difference of the piece counts
material_term(self, max_color) ==
    200 * (Len(pieces(self, max_color))
              - Len(pieces(self, opponent(max_color))))

\* C20: for both colours, the value calculate_utility(max_color) stores in
\* utility and returns on the board b is the sum of the no-moves term, the
\* two-pieces term, the capture term and the material term.
C20_UtilitySum ==
    \A max_color \in Colors :
       calculate_utility(b, max_color).utility
          = no_moves_term(b, max_color) + two_pieces_term(b, max_color)
               + capture_term(b, max_color) + material_term(b, max_color)

\* a ply with a capture after turn 10 has left a board where a side has two
\* pieces and the side to move has no action: none of the four terms is 0
C20_Witness ==
    /\ ret.op = "take_turn"
    /\ ret.value.mill_removal_target # None
    /\ \A max_color \in Colors :
          /\ no_moves_term(b, max_color) # 0
          /\ two_pieces_term(b, max_color) # 0
          /\ capture_term(b, max_color) # 0
          /\ material_term(b, max_color) # 0


\* ------------------------------------------------------------------------
\* C21: the value of a drawn board
\* ------------------------------------------------------------------------

\* C21: on every board on which is_repetitive_draw() is true, the board
\* advanced in place by place and add_action included, calculate_utility
\* returns 0 for both colours.
C21_DrawIsZero ==
    is_repetitive_draw(b) =>
       \A max_color \in Colors : calculate_utility(b, max_color).utility = 0


\* ------------------------------------------------------------------------
\* C22: the value at the depth limit
\* ------------------------------------------------------------------------

\* the value AB_min_value returns at depth 0 on the board that
\* result(mv, True, color) built from self is that board's own score
leaf_is_own_score(self, color, mv) ==
    ~is_terminal(result(self, mv, TRUE, color).new_board) =>
       AB_min_value(color, result(self, mv, TRUE, color).new_board, 0,
                    -100000, 100000)
          = calculate_utility(result(self, mv, TRUE, color).new_board,
                              color).utility

\* C22: for every generated action of the board b, AB_min_value entered
\* with depth 0 on the non-terminal board that result built with calc_util
\* true returns calculate_utility's score of that same board for the
\* searching colour.
C22_LeafIsOwnScore ==
    \A i \in 1..Len(generate_moves(b, FALSE)) :
       leaf_is_own_score(b, mover(b), generate_moves(b, FALSE)[i])


\* ------------------------------------------------------------------------
\* C23: the search without the cuts
\* ------------------------------------------------------------------------

\* the largest and the smallest member of a non-empty set of values
greatest(values) == CHOOSE v \in values : \A w \in values : w <= v

least(values) == CHOOSE v \in values : \A w \in values : v <= w

\* the board passed to pass i of a loop over possible_moves of the board bd
\* at the given depth: bd itself for the first pass, and afterwards bd as
\* the calls of result have left it (they all write the same value)
receiver(color, bd, possible_moves, depth, i) ==
    IF i = 1
    THEN bd
    ELSE result(bd, possible_moves[1], depth = 1, color).self

\* the board a loop hands down in pass i
child(color, bd, possible_moves, depth, i) ==
    result(receiver(color, bd, possible_moves, depth, i), possible_moves[i],
           depth = 1, color).new_board

\* depth limited minimax with the leaf values, the move order and the
\* terminal test of AB_max_value (is_max) and AB_min_value, and no cut
RECURSIVE minimax_value(_, _, _, _)
minimax_value(color, bd, depth, is_max) ==
    IF is_terminal(bd)
    THEN calculate_utility(bd, color).utility
    ELSE IF depth = 0
    THEN bd.utility
    ELSE LET possible_moves == generate_moves(bd, FALSE)
             values == {minimax_value(color,
                                      child(color, bd, possible_moves,
                                            depth, i),
                                      depth - 1, ~is_max) :
                           i \in 1..Len(possible_moves)}
         IN  IF is_max THEN greatest(values) ELSE least(values)

\* the root of that minimax with the tie rule of AB_minimax: the earliest
\* action whose value is the largest
minimax_action(color, bd, depth) ==
    LET possible_moves == generate_moves(bd, FALSE)
        value == [i \in 1..Len(possible_moves) |->
                     minimax_value(color,
                                   child(color, bd, possible_moves, depth, i),
                                   depth - 1, FALSE)]
        best == CHOOSE i \in 1..Len(possible_moves) :
                   /\ \A j \in 1..Len(possible_moves) : value[j] <= value[i]
                   /\ \A j \in 1..(i - 1) : value[j] < value[i]
    IN  possible_moves[best]

\* C23: on every board with a legal action and for every depth n in
\* 1..MaxDepth, AB_minimax returns the action that the minimax without cuts
\* returns with the same leaf values, move order and tie rule.
C23_PruningSound ==
    [](\A n \in 1..MaxDepth :
          generate_moves(b, FALSE) # << >> =>
             AB_minimax(mover(b), b, n).action = minimax_action(mover(b), b, n))

\* a board an agent has moved on, where the pass at depth 2 cuts the loop
\* of AB_min_value under the second root action: alpha is then the value of
\* the first root action
C23_Witness ==
    LET possible_moves == generate_moves(b, FALSE)
        color == mover(b)
        first == child(color, b, possible_moves, 2, 1)
        second == child(color, b, possible_moves, 2, 2)
        alpha == AB_min_value(color, first, 1, -100000, 100000)
    IN  /\ ret.op = "take_turn"
        /\ Len(possible_moves) >= 2
        /\ ~is_terminal(second)
        /\ alpha > -100000
        /\ min_range(color, second, generate_moves(second, FALSE), 1,
                     Len(generate_moves(second, FALSE)), 1, alpha,
                     100000).returned


\* ------------------------------------------------------------------------
\* C24: ties at the root
\* ------------------------------------------------------------------------

\* what the root loop of AB_minimax holds before its first pass
root_start(bd, possible_moves) ==
    [alpha |-> -100000, max_action |-> possible_moves[1], board |-> bd,
     raised |-> FALSE]

RECURSIVE root_passes(_, _, _, _, _, _)

\* the passes lo..hi once those before lo have left the states low
root_passes_rest(color, possible_moves, lo, hi, depth, low) ==
    low \o root_passes(color, possible_moves, lo, hi, depth, low[Len(low)])

\* what the root loop holds after each of its passes lo..hi (lo <= hi),
\* in order, when it holds r before pass lo
root_passes(color, possible_moves, lo, hi, depth, r) ==
    IF lo = hi
    THEN << root_range(color, r.board, possible_moves, lo, lo, depth,
                       r.alpha, r.max_action) >>
    ELSE root_passes_rest(color, possible_moves, (lo + hi) \div 2 + 1, hi,
                          depth,
                          root_passes(color, possible_moves, lo,
                                      (lo + hi) \div 2, depth, r))

\* what the root loop holds before pass i, given what it holds after each
root_before(bd, possible_moves, after, i) ==
    IF i = 1 THEN root_start(bd, possible_moves) ELSE after[i - 1]

\* the value the root loop gets back for each of its actions
root_values(color, bd, possible_moves, depth, after) ==
    [i \in 1..Len(possible_moves) |->
        AB_min_value(color,
                     result(root_before(bd, possible_moves, after, i).board,
                            possible_moves[i], depth = 1, color).new_board,
                     depth - 1,
                     root_before(bd, possible_moves, after, i).alpha,
                     100000)]

\* chosen is the earliest of possible_moves whose returned value is best
earliest_best(possible_moves, value, best, chosen) ==
    \E k \in 1..Len(possible_moves) :
       /\ possible_moves[k] = chosen
       /\ value[k] = best
       /\ \A j \in 1..(k - 1) : value[j] < best

\* the earliest action of value best is not the first, and a later action
\* has the same value
later_tie(possible_moves, value, best) ==
    \E k \in 2..Len(possible_moves) :
       /\ value[k] = best
       /\ \A j \in 1..(k - 1) : value[j] < best
       /\ \E j \in (k + 1)..Len(possible_moves) : value[j] = best

\* the claim for the board bd, whose actions are possible_moves, at one
\* depth; after is what the root loop holds after each pass
earliest_best_at(color, bd, possible_moves, depth, after) ==
    earliest_best(possible_moves,
                  root_values(color, bd, possible_moves, depth, after),
                  after[Len(possible_moves)].alpha,
                  AB_minimax(color, bd, depth).action)

\* C24: for every depth n in 1..MaxDepth and every board with a legal
\* action, the action AB_minimax returns is the earliest action in
\* generate_moves() order whose returned value equals the final running
\* best: a later action of the same value never replaces it.
C24_EarliestBest ==
    [](\A n \in 1..MaxDepth :
          LET possible_moves == generate_moves(b, FALSE)
          IN  possible_moves # << >> =>
                 earliest_best_at(mover(b), b, possible_moves, n,
                                  root_passes(mover(b), possible_moves, 1,
                                              Len(possible_moves), n,
                                              root_start(b, possible_moves))))

\* the case of the claim at depth 1 on the board bd
later_tie_at(color, bd, possible_moves, after) ==
    later_tie(possible_moves,
              root_values(color, bd, possible_moves, 1, after),
              after[Len(possible_moves)].alpha)

\* a board an agent has moved on where, at depth 1, a later root action
\* returns the same value as the earliest best one, which is not the first
C24_Witness ==
    /\ ret.op = "take_turn"
    /\ generate_moves(b, FALSE) # << >>
    /\ later_tie_at(mover(b), b, generate_moves(b, FALSE),
                    root_passes(mover(b), generate_moves(b, FALSE), 1,
                                Len(generate_moves(b, FALSE)), 1,
                                root_start(b, generate_moves(b, FALSE))))


\* ------------------------------------------------------------------------
\* C25: the turn counter
\* ------------------------------------------------------------------------

\* what place, move, add_action and result do to turn on the board self,
\* for the action act that generate_moves built for it
turn_steps(self, act) ==
    /\ act.old_coord = None =>
          place(self, act.color, act.new_coord).turn = self.turn + 1
    /\ act.old_coord # None =>
          move(self, act.color, act.old_coord, act.new_coord).turn
             = self.turn + 1
    /\ add_action(self, act).turn = self.turn
    /\ ~result(self, act, FALSE, None).raised
    /\ result(self, act, FALSE, None).new_board.turn = self.turn + 1

\* what remove does to turn on the board self, for each of its pieces
turn_kept(self) ==
    \A space \in Spaces :
       self.spaces[space] # "O" => remove(self, space).turn = self.turn

\* C25: on every board of a game, place and move add 1 to turn, remove and
\* add_action leave it alone, and for every generated action, with or
\* without a capture, result(action) has the receiver's turn + 1; every ply
\* of the game loop advances the turn of the board by exactly 1.
C25_TurnPlusOne ==
    /\ [](LET possible_moves == generate_moves(b, FALSE)
          IN  /\ turn_kept(b)
              /\ \A i \in 1..Len(possible_moves) :
                    turn_steps(b, possible_moves[i]))
    /\ [][b'.turn = b.turn + 1]_vars

\* a board reached by a ply that captured, on which the side to move has
\* both an action with a capture and one without
C25_Witness ==
    /\ ret.op = "take_turn"
    /\ ret.value.mill_removal_target # None
    /\ \E i, j \in 1..Len(generate_moves(b, FALSE)) :
          /\ generate_moves(b, FALSE)[i].mill_removal_target # None
          /\ generate_moves(b, FALSE)[j].mill_removal_target = None
          /\ generate_moves(b, FALSE)[j].old_coord # None


\* ------------------------------------------------------------------------
\* C26: the length of the history
\* ------------------------------------------------------------------------

\* new is the history old after add_action(act): act at the end, and of a
\* full history the oldest action gone and the other 15 in their order
appended_capped(old, new, act) ==
    IF Len(old) < MAX_PREVIOUS_ACTIONS
    THEN new = Append(old, act)
    ELSE /\ Len(new) = MAX_PREVIOUS_ACTIONS
         /\ new[MAX_PREVIOUS_ACTIONS] = act
         /\ \A i \in 1..(MAX_PREVIOUS_ACTIONS - 1) : new[i] = old[i + 1]

\* C26: the history never holds more than 16 actions, and every add_action
\* appends its action at the end, dropping exactly the oldest action when
\* the history already holds 16.
C26_HistoryCapped ==
    /\ [](Len(b.previous_actions) <= MAX_PREVIOUS_ACTIONS)
    /\ [][ret'.op = "add_action" =>
             appended_capped(b.previous_actions, b'.previous_actions,
                             ret'.value)]_vars

\* add_action has just been called on a history of 16: the action of the
\* first ply is gone, that of the second is now the oldest
C26_Witness ==
    /\ ret.op = "add_action"
    /\ Len(b.previous_actions) = MAX_PREVIOUS_ACTIONS
    /\ b.previous_actions[1].id = 2
    /\ b.previous_actions[MAX_PREVIOUS_ACTIONS] = ret.value


\* ------------------------------------------------------------------------
\* C27: the search always has an action to return
\* ------------------------------------------------------------------------

\* the game loop calls take_turn on the board self: one of the ten plies
\* of phase 1, or a ply of phase 2, which follows an is_terminal() that
\* returned false
ply_is_played(self) == self.turn < 11 \/ ~is_terminal(self)

\* C27: on every board on which a game loop of AI players calls
\* AI.take_turn, generate_moves() is not empty and AB_minimax does not
\* fail on possible_moves[0].
C27_SearchHasMoves ==
    [](ply_is_played(b) =>
          LET possible_moves == generate_moves(b, FALSE)
          IN  /\ possible_moves # << >>
              /\ ~root_loop(mover(b), b, possible_moves, 1).raised)

\* a board of phase 2 reached by a ply, not terminal, on which some piece of
\* the mover cannot move: the check of the loop passed and the search
\* returns one of the actions of the other pieces
C27_Witness ==
    /\ b.turn >= 11
    /\ ret.op = "take_turn"
    /\ ply_is_played(b)
    /\ \E k \in 1..Len(pieces(b, mover(b))) :
          \A i \in 1..Len(generate_moves(b, FALSE)) :
             generate_moves(b, FALSE)[i].old_coord # pieces(b, mover(b))[k]
    /\ AB_minimax(mover(b), b, 1).action \in
          {generate_moves(b, FALSE)[i] : i \in 1..Len(generate_moves(b, FALSE))}


\* ------------------------------------------------------------------------
\* C28: the cached utility and the chosen action
\* ------------------------------------------------------------------------

\* the board self with the value calculate_utility gives it for max_color
\* in its utility field: the same occupancy, piece lists, turn and history
with_utility_of(self, max_color) ==
    [self EXCEPT !.utility = calculate_utility(self, max_color).utility]

\* C28: for every depth n in 1..MaxDepth, ID_AB_minimax and AB_minimax
\* choose the same action on the board b and on a board that differs from
\* b in the utility field only.
C28_UtilityIrrelevant ==
    \A n \in 1..MaxDepth : \A max_color \in Colors :
       generate_moves(b, FALSE) # << >> =>
          /\ ID_AB_minimax(mover(b), with_utility_of(b, max_color), n).action
                = ID_AB_minimax(mover(b), b, n).action
          /\ AB_minimax(mover(b), with_utility_of(b, max_color), n).action
                = AB_minimax(mover(b), b, n).action


\* ------------------------------------------------------------------------
\* C29: the ply on the board of the game and the ply of result
\* ------------------------------------------------------------------------

\* the boards x and y have the same occupancy, piece lists, turn and history
same_position(x, y) ==
    /\ x.spaces = y.spaces
    /\ x.white_pieces = y.white_pieces
    /\ x.black_pieces = y.black_pieces
    /\ x.turn = y.turn
    /\ x.previous_actions = y.previous_actions

\* C29: after every ply of the game loop (take_turn applies the chosen
\* action m to the board of the game, then b.add_action(m)) the board has
\* the occupancy, piece lists, turn and history of result(m, False, None)
\* computed from the board as it was before the ply.
C29_PathsAgree ==
    [][/\ ~result(b, ret'.value, FALSE, None).raised
       /\ same_position(b', result(b, ret'.value, FALSE, None).new_board)]_vars

\* the ply just played by a searching or drawing agent captured a piece
C29_Witness ==
    /\ ret.op = "take_turn"
    /\ ret.value.mill_removal_target # None
    /\ b.spaces[ret.value.mill_removal_target] = "O"
    /\ last(b.previous_actions) = ret.value


\* ------------------------------------------------------------------------
\* C30: what the queries leave of their board
\* ------------------------------------------------------------------------

\* the receiver after will_mill(color, mv): line 364 calls
\* self.result(move, False, None), the one statement of the queries that
\* could write to the receiver; is_mill and is_repetitive_draw only read
after_will_mill(self, mv) == result(self, mv, FALSE, None).self

RECURSIVE after_will_mills(_, _, _, _)

\* the passes lo..hi once those before lo have left the board low
after_will_mills_rest(low, possible_moves, lo, hi) ==
    IF low.turn < 0
    THEN low
    ELSE after_will_mills(low, possible_moves, lo, hi)

\* the receiver after the calls of will_mill that generate_moves makes for
\* the moves lo..hi of the actions it returns (the test is made with
\* mill_removal_target None, once for each piece and open space)
after_will_mills(self, possible_moves, lo, hi) ==
    IF lo > hi
    THEN self
    ELSE IF lo = hi
    THEN after_will_mill(self, [possible_moves[lo] EXCEPT
                                   !.mill_removal_target = None])
    ELSE after_will_mills_rest(
            after_will_mills(self, possible_moves, lo, (lo + hi) \div 2),
            possible_moves, (lo + hi) \div 2 + 1, hi)

\* the receiver after generate_moves(test_existence); is_terminal calls
\* generate_moves(True) and nothing else that could write
after_generate_moves(self, test_existence) ==
    after_will_mills(self, generate_moves(self, test_existence), 1,
                     Len(generate_moves(self, test_existence)))

\* the board x has the occupancy, piece lists, turn, history and
\* repetition_draw of the board y
left_unchanged(x, y) ==
    /\ same_position(x, y)
    /\ x.repetition_draw = y.repetition_draw

\* C30: generate_moves, will_mill (for every generated action), is_terminal
\* and, for every n in 1..MaxDepth, a complete ID_AB_minimax leave the board
\* they are called on with its occupancy, piece lists, turn, history and
\* repetition_draw.
C30_QueriesLeaveBoard ==
    [](/\ left_unchanged(after_generate_moves(b, FALSE), b)
       /\ left_unchanged(after_generate_moves(b, TRUE), b)
       /\ \A i \in 1..Len(generate_moves(b, FALSE)) :
             left_unchanged(after_will_mill(b, generate_moves(b, FALSE)[i]), b)
       /\ \A n \in 1..MaxDepth :
             generate_moves(b, FALSE) # << >> =>
                left_unchanged(ID_AB_minimax(mover(b), b, n).board, b))

\* a board an agent has moved on, on which a complete search does write:
\* it leaves another value in the utility field
C30_Witness ==
    /\ ret.op = "take_turn"
    /\ generate_moves(b, FALSE) # << >>
    /\ ID_AB_minimax(mover(b), b, MaxDepth).board.utility # b.utility
    /\ left_unchanged(ID_AB_minimax(mover(b), b, MaxDepth).board, b)


\* ------------------------------------------------------------------------
\* C31: the values and the sentinels
\* ------------------------------------------------------------------------

\* v lies strictly between the bounds AB_minimax starts with (lines 627-628)
between_sentinels(v) == -100000 < v /\ v < 100000

RECURSIVE values_between(_, _, _, _, _, _)

RECURSIVE passes_between(_, _, _, _, _, _, _)

\* what the loop of AB_max_value (is_max) or AB_min_value holds after a
\* pass that began with w and left s: the bounds, the receiver and the
\* return flag, and ok, whether every value returned so far under this loop
\* lies between the sentinels (below says so for the call of this pass)
pass_made(w, is_max, s, below) ==
    [alpha |-> IF is_max THEN s.alpha ELSE w.alpha,
     beta |-> IF is_max THEN w.beta ELSE s.beta,
     board |-> s.board,
     returned |-> s.returned,
     ok |-> w.ok /\ below]

\* one pass of the loop for the move mv, when the loop holds w before it
pass_between(color, mv, depth, w, is_max) ==
    pass_made(w, is_max,
              IF is_max
              THEN max_range(color, w.board, << mv >>, 1, 1, depth, w.alpha,
                             w.beta)
              ELSE min_range(color, w.board, << mv >>, 1, 1, depth, w.alpha,
                             w.beta),
              values_between(color,
                             result(w.board, mv, depth = 1, color).new_board,
                             depth - 1, w.alpha, w.beta, ~is_max))

\* the passes lo..hi once those before lo have left w: none after a return
passes_between_rest(color, possible_moves, lo, hi, depth, w, is_max) ==
    IF w.returned
    THEN w
    ELSE passes_between(color, possible_moves, lo, hi, depth, w, is_max)

\* the passes lo..hi of the loop, in order, from what it holds in w
passes_between(color, possible_moves, lo, hi, depth, w, is_max) ==
    IF lo > hi
    THEN w
    ELSE IF lo = hi
    THEN pass_between(color, possible_moves[lo], depth, w, is_max)
    ELSE passes_between_rest(color, possible_moves, (lo + hi) \div 2 + 1,
                             hi, depth,
                             passes_between(color, possible_moves, lo,
                                            (lo + hi) \div 2, depth, w,
                                            is_max),
                             is_max)

\* the call AB_max_value (is_max) or AB_min_value (bd, depth, alpha, beta)
\* returns a value between the sentinels, and so does every call made
\* under it
values_between(color, bd, depth, alpha, beta, is_max) ==
    /\ between_sentinels(IF is_max
                         THEN AB_max_value(color, bd, depth, alpha, beta)
                         ELSE AB_min_value(color, bd, depth, alpha, beta))
    /\ \/ is_terminal(bd)
       \/ depth = 0
       \/ passes_between(color, generate_moves(bd, FALSE), 1,
                         Len(generate_moves(bd, FALSE)), depth,
                         [alpha |-> alpha, beta |-> beta, board |-> bd,
                          returned |-> FALSE, ok |-> TRUE],
                         is_max).ok

\* the search AB_minimax(bd, depth) on a board with the actions
\* possible_moves; after is what the root loop holds after each pass
search_between(color, bd, possible_moves, depth, after) ==
    /\ \A i \in 1..Len(possible_moves) :
          values_between(color,
                         result(root_before(bd, possible_moves, after,
                                            i).board,
                                possible_moves[i], depth = 1,
                                color).new_board,
                         depth - 1,
                         root_before(bd, possible_moves, after, i).alpha,
                         100000, FALSE)
    /\ after[1].alpha > -100000
    /\ after[1].max_action = possible_moves[1]
    /\ \A i \in 1..Len(possible_moves) : between_sentinels(after[i].alpha)

\* C31: on every board of a game, calculate_utility gives a value strictly
\* between -100000 and +100000 for either colour, and in every search
\* AB_minimax starts there at a depth in 1..MaxDepth every value returned
\* by AB_min_value and AB_max_value lies strictly between them; the first
\* root action replaces the initial best, and the running best is never a
\* sentinel after a pass.
C31_BetweenSentinels ==
    [](/\ \A max_color \in Colors :
             between_sentinels(calculate_utility(b, max_color).utility)
       /\ \A n \in 1..MaxDepth :
             LET possible_moves == generate_moves(b, FALSE)
             IN  possible_moves # << >> =>
                    search_between(mover(b), b, possible_moves, n,
                                   root_passes(mover(b), possible_moves, 1,
                                               Len(possible_moves), n,
                                               root_start(b, possible_moves))))

\* some root action of the search at depth MaxDepth gets a value at least
\* MILL_FORMED away from 0
valued_at(color, bd, possible_moves, after) ==
    \E i \in 1..Len(possible_moves) :
       \/ root_values(color, bd, possible_moves, MaxDepth, after)[i]
             >= MILL_FORMED
       \/ root_values(color, bd, possible_moves, MaxDepth, after)[i]
             <= 0 - MILL_FORMED

\* a board an agent has moved on where the search returns such a value
C31_Witness ==
    /\ ret.op = "take_turn"
    /\ generate_moves(b, FALSE) # << >>
    /\ valued_at(mover(b), b, generate_moves(b, FALSE),
                 root_passes(mover(b), generate_moves(b, FALSE), 1,
                             Len(generate_moves(b, FALSE)), MaxDepth,
                             root_start(b, generate_moves(b, FALSE))))

====
